---------------------------- MODULE Spec2Model ----------------------------
(***************************************************************************)
(* Model of the png2jpg.co image converter: the ImageConverter service     *)
(* (src/src/lib/services/ImageConverter.ts) and the component that drives  *)
(* it (src/src/lib/components/ImageConverter.svelte).                      *)
(*                                                                         *)
(* Strings that the code takes apart (file names, extensions, formats,     *)
(* output file names) are sequences of one-character strings.  Media types *)
(* are only compared and looked up, so they are TLA+ strings.  Object URLs *)
(* are positive integers handed out by a counter; the empty string that    *)
(* stands for "no converted URL yet" is EmptyUrl.                          *)
(***************************************************************************)
EXTENDS Integers, Sequences, FiniteSets, TLC

(***************************************************************************)
(* Bounds of the model.                                                    *)
(***************************************************************************)
MaxBaseLen == 2
MaxListLen == 3
MaxFileSize == 1
MaxUserActions == 3
MaxTasks == 2
MaxImageSide == 2

(***************************************************************************)
(* String literals of the source, as character sequences.                  *)
(***************************************************************************)
s_png == <<"p", "n", "g">>
s_jpg == <<"j", "p", "g">>
s_jpeg == <<"j", "p", "e", "g">>
s_gif == <<"g", "i", "f">>
s_webp == <<"w", "e", "b", "p">>
s_svg == <<"s", "v", "g">>
s_ico == <<"i", "c", "o">>
s_tiff == <<"t", "i", "f", "f">>
s_avif == <<"a", "v", "i", "f">>
s_txt == <<"t", "x", "t">>
s_unknown == <<"u", "n", "k", "n", "o", "w", "n">>
s_dot == <<".">>

\* JavaScript's undefined (a missing table entry); the empty string is << >>.
undefined == <<"<undefined>">>

\* a || b on strings: the empty string and undefined are falsy.
Truthy(v) == v # << >> /\ v # undefined
OrElse(a, b) == IF Truthy(a) THEN a ELSE b

\* String.prototype.toLowerCase, character by character (the upper-case
\* characters are those that occur in the names of the model).
LowerChar(c) ==
    CASE c = "P" -> "p"
      [] c = "N" -> "n"
      [] c = "G" -> "g"
      [] c = "J" -> "j"
      [] c = "A" -> "a"
      [] OTHER -> c
toLowerCase(s) == [i \in 1..Len(s) |-> LowerChar(s[i])]

\* String.prototype.split('.'): the segments between the dots; a string
\* without a dot (the empty string included) is its own single segment.
RECURSIVE split(_)
split(s) ==
    IF \E i \in 1..Len(s) : s[i] = "."
    THEN LET i == CHOOSE k \in 1..Len(s) :
                      s[k] = "." /\ \A j \in 1..(k - 1) : s[j] # "."
         IN  <<SubSeq(s, 1, i - 1)>> \o split(SubSeq(s, i + 1, Len(s)))
    ELSE <<s>>

\* Array.prototype.pop on a non-empty array: its last element.
pop(arr) == IF Len(arr) = 0 THEN undefined ELSE arr[Len(arr)]

\* name.split('.').pop()?.toLowerCase()
ExtOf(name) ==
    LET e == pop(split(name))
    IN  IF e = undefined THEN undefined ELSE toLowerCase(e)

\* Mutant: the base name is cut at the first dot (name.split('.')[0]).
ReplaceTrailingExt_firstDot(name) == split(name)[1]

\* name.replace(/\.[^.]+$/, ''): drops a final dot that is followed by one
\* or more non-dot characters up to the end, and nothing else.
ReplaceTrailingExt(name) ==
    IF \E i \in 1..(Len(name) - 1) :
           name[i] = "." /\ \A j \in (i + 1)..Len(name) : name[j] # "."
    THEN LET i == CHOOSE k \in 1..(Len(name) - 1) :
                      name[k] = "." /\ \A j \in (k + 1)..Len(name) : name[j] # "."
         IN  SubSeq(name, 1, i - 1)
    ELSE name

(***************************************************************************)
(* The tables of the service.                                              *)
(***************************************************************************)
SUPPORTED_INPUT_FORMATS ==
    {"image/png", "image/jpeg", "image/jpg", "image/webp", "image/gif",
     "image/svg+xml", "image/x-icon", "image/vnd.microsoft.icon",
     "image/tiff", "image/avif"}

SUPPORTED_EXTENSIONS ==
    {s_png, s_jpg, s_jpeg, s_gif, s_webp, s_svg, s_ico, s_tiff, s_avif}

MIME_TO_EXT ==
    [m \in SUPPORTED_INPUT_FORMATS |->
        CASE m = "image/jpeg" -> s_jpg
          [] m = "image/jpg" -> s_jpg
          [] m = "image/png" -> s_png
          [] m = "image/webp" -> s_webp
          [] m = "image/gif" -> s_gif
          [] m = "image/svg+xml" -> s_svg
          [] m = "image/x-icon" -> s_ico
          [] m = "image/vnd.microsoft.icon" -> s_ico
          [] m = "image/tiff" -> s_tiff
          [] m = "image/avif" -> s_avif]

\* type ImageFormat
ImageFormat == {s_png, s_jpg, s_jpeg, s_webp}

\* FORMAT_OPTIONS of the component: the values the selection can take.
FORMAT_OPTIONS == {s_jpg, s_png, s_webp}


(***************************************************************************)
(* Files.  A File has a name, a declared media type (by the File API a     *)
(* parsable MIME type or the empty string) and a size.  width and height   *)
(* are those of the bitmap the platform decodes from its bytes, when it    *)
(* does decode them.                                                       *)
(***************************************************************************)
SeqsUpTo(S, n) == UNION {[1..k -> S] : k \in 0..n}

MediaTypes == SUPPORTED_INPUT_FORMATS \cup {"", "text/plain", "application/pdf"}

Bases == SeqsUpTo({"a", "."}, MaxBaseLen)

Suffixes ==
    {<<>>, s_dot, s_png, s_jpg, <<"P", "N", "G">>, s_txt}
    \cup {s_dot \o e : e \in SUPPORTED_EXTENSIONS}
    \cup {s_dot \o e : e \in {<<"P", "N", "G">>, <<"J", "p", "g">>, s_txt, <<"a">>}}

Names == {b \o s : b \in Bases, s \in Suffixes}

MkFile(name, type, size) ==
    [name |-> name, type |-> type, size |-> size, width |-> 2, height |-> 1]

\* Every file the service operations are applied to.
ServiceFiles ==
    {MkFile(n, t, z) : n \in Names, t \in MediaTypes, z \in 0..MaxFileSize}

\* The files the user can hand to the component.
PngFile == MkFile(<<"a">> \o s_dot \o s_png, "image/png", 1)
SvgFile == MkFile(<<"b">> \o s_dot \o s_svg, "image/svg+xml", 1)
TxtFile == MkFile(<<"t">> \o s_dot \o s_txt, "text/plain", 1)
UserFiles == {PngFile, SvgFile, TxtFile}

(***************************************************************************)
(* The platform's object-URL store.  URL n is entry n of the store; an     *)
(* entry records who created it, the blob behind it, how many times        *)
(* revokeObjectURL was called on it, and the position of the latest such   *)
(* call among all the calls of revokeObjectURL (0: none yet).              *)
(***************************************************************************)
EmptyUrl == 0

createObjectURL(store, by, blob) ==
    Append(store, [by |-> by, blob |-> blob, revoked |-> 0, at |-> 0])

\* The number of calls of revokeObjectURL so far.
RECURSIVE Revocations(_)
Revocations(store) ==
    IF store = <<>>
    THEN 0
    ELSE store[Len(store)].revoked + Revocations(SubSeq(store, 1, Len(store) - 1))

revokeObjectURL(store, url) ==
    IF url \in DOMAIN store
    THEN [store EXCEPT ![url].revoked = @ + 1,
                       ![url].at = Revocations(store) + 1]
    ELSE store

IsLive(store, url) == url \in DOMAIN store /\ store[url].revoked = 0

FileBlob(file) == [type |-> file.type, size |-> file.size]

(***************************************************************************)
(* ImageConverter: admission and bookkeeping.                              *)
(***************************************************************************)
doesSupportFileType(file) ==
    IF file.type \in SUPPORTED_INPUT_FORMATS
    THEN TRUE
    ELSE LET ext == ExtOf(file.name)
         IN  OrElse(ext, <<>>) \in SUPPORTED_EXTENSIONS

\* Mutant: the filter callback returns the negated flag.
filterSupportedFiles_negated(fileList) ==
    LET unsupported(file) == ~doesSupportFileType(file)
    IN  SelectSeq(fileList, unsupported)

\* Mutant: nothing is filtered out.
filterSupportedFiles_all(fileList) == fileList

filterSupportedFiles(fileList) == SelectSeq(fileList, doesSupportFileType)

\* Mutant: no 'unknown' default, so a missing table entry is falsy.
getFileExtension_noDefault(mimeType) ==
    IF mimeType \in DOMAIN MIME_TO_EXT THEN MIME_TO_EXT[mimeType] ELSE undefined

getFileExtension(mimeType) ==
    OrElse(IF mimeType \in DOMAIN MIME_TO_EXT THEN MIME_TO_EXT[mimeType] ELSE undefined,
           s_unknown)

\* Mutant: the record is created with the file's size as its converted size.
createConvertedFileRecord_sized(file, targetFormat, id, originalUrl) ==
    [id |-> id,
     originalFile |-> file,
     originalUrl |-> originalUrl,
     convertedUrl |-> EmptyUrl,
     filename |-> ReplaceTrailingExt(file.name) \o s_dot \o targetFormat,
     isConverting |-> TRUE,
     sourceFormat |-> OrElse(getFileExtension(file.type), OrElse(ExtOf(file.name), s_unknown)),
     targetFormat |-> targetFormat,
     originalSize |-> file.size,
     convertedSize |-> file.size]

\* id is the value of generateId(), originalUrl that of URL.createObjectURL(file).
createConvertedFileRecord(file, targetFormat, id, originalUrl) ==
    LET sourceFormat ==
            OrElse(getFileExtension(file.type), OrElse(ExtOf(file.name), s_unknown))
        baseFilename == ReplaceTrailingExt(file.name)
        filename == baseFilename \o s_dot \o targetFormat
    IN  [id |-> id,
         originalFile |-> file,
         originalUrl |-> originalUrl,
         convertedUrl |-> EmptyUrl,
         filename |-> filename,
         isConverting |-> TRUE,
         sourceFormat |-> sourceFormat,
         targetFormat |-> targetFormat,
         originalSize |-> file.size,
         convertedSize |-> 0]

\* Mutant: the 'webp' case is missing and falls to the default.
getFormatConfig_noWebp(targetFormat) ==
    CASE targetFormat = s_png -> [mimeType |-> "image/png", quality |-> 10]
      [] OTHER -> [mimeType |-> "image/jpeg", quality |-> 9]

getFormatConfig(targetFormat) ==
    CASE targetFormat = s_png -> [mimeType |-> "image/png", quality |-> 10]
      [] targetFormat = s_webp -> [mimeType |-> "image/webp", quality |-> 9]
      [] OTHER -> [mimeType |-> "image/jpeg", quality |-> 9]


(***************************************************************************)
(* State.                                                                  *)
(*   files           the component's list of ConvertedFile records         *)
(*   selectedFormat  the component's selected output format                *)
(*   urlStore        the platform's object-URL store                       *)
(*   nextId          the next value generateId() returns: the random       *)
(*                   nine-character token is modelled as a fresh token     *)
(*   tasks           the invocations of handleFiles, in order of admission *)
(*   downloads       the invocations of downloadFile                       *)
(*   call            a direct call of one service method: its arguments    *)
(*                   and its return value                                  *)
(*   userActions     how much the user has done: one for each file handed  *)
(*                   over, each click on a format, Remove, Clear All or    *)
(*                   Download button                                       *)
(***************************************************************************)
VARIABLES files, selectedFormat, urlStore, nextId, tasks, downloads, call,
          userActions

vars ==
    <<files, selectedFormat, urlStore, nextId, tasks, downloads, call, userActions>>

componentVars == <<files, selectedFormat, tasks, downloads, userActions>>

NoCall ==
    [op |-> "none", given |-> <<>>, fileList |-> <<>>, targetFormat |-> <<>>,
     ret |-> undefined]

ComponentInit ==
    /\ files = <<>>
    /\ selectedFormat = s_jpg
    /\ urlStore = <<>>
    /\ nextId = 1
    /\ tasks = <<>>
    /\ downloads = <<>>
    /\ userActions = 0

(***************************************************************************)
(* Direct calls of the service's synchronous methods, each on a fresh      *)
(* converter: the argument is drawn by ServiceInit, the method is applied  *)
(* by an action.                                                           *)
(***************************************************************************)
ServiceInputs ==
    {<<f>> : f \in ServiceFiles} \cup SeqsUpTo(UserFiles, MaxListLen)

ServiceInit ==
    /\ ComponentInit
    /\ \E l \in ServiceInputs : call = [NoCall EXCEPT !.given = l, !.fileList = l]

CallDoesSupportFileType ==
    /\ call.op = "none"
    /\ Len(call.fileList) = 1
    /\ call' = [call EXCEPT !.op = "doesSupportFileType",
                            !.ret = doesSupportFileType(call.fileList[1])]
    /\ UNCHANGED <<componentVars, urlStore, nextId>>

\* filterSupportedFiles on the collection, or again on its own result.
CallFilterSupportedFiles ==
    \/ /\ call.op = "none"
       /\ call' = [call EXCEPT !.op = "filterSupportedFiles",
                               !.ret = filterSupportedFiles(call.fileList)]
       /\ UNCHANGED <<componentVars, urlStore, nextId>>
    \/ /\ call.op = "filterSupportedFiles"
       /\ call' = [call EXCEPT !.op = "filterSupportedFilesAgain",
                               !.given = call.ret,
                               !.fileList = call.ret,
                               !.ret = filterSupportedFiles(call.ret)]
       /\ UNCHANGED <<componentVars, urlStore, nextId>>

CallCreateConvertedFileRecord ==
    /\ call.op = "none"
    /\ Len(call.fileList) = 1
    /\ \E targetFormat \in ImageFormat :
          LET file == call.fileList[1]
              store == createObjectURL(urlStore, "createConvertedFileRecord", FileBlob(file))
          IN  /\ urlStore' = store
              /\ nextId' = nextId + 1
              /\ call' = [call EXCEPT
                     !.op = "createConvertedFileRecord",
                     !.targetFormat = targetFormat,
                     !.ret = createConvertedFileRecord(file, targetFormat, nextId, Len(store))]
    /\ UNCHANGED componentVars


(***************************************************************************)
(* ImageConverter: conversion.  Whether the platform reads, decodes and     *)
(* encodes a file depends on its bytes, which the code never looks at: the *)
(* model lets every platform request end either way.                       *)
(***************************************************************************)
SvgType == "image/svg+xml"

\* The null blob.
null == [type |-> "<null>", size |-> 0]

\* canvas.toBlob calls back with the blob it encoded, of the requested type
\* (the platform encodes png, jpeg and webp), or with null.  The encoder is
\* a function of the pixels and the type: a header and the pixel data.
toBlob(encodes, canvas, mimeType) ==
    IF encodes /\ canvas.width > 0 /\ canvas.height > 0
    THEN [type |-> mimeType,
          size |-> (IF mimeType = "image/png" THEN 2 ELSE 1)
                       + canvas.width * canvas.height]
    ELSE null

\* A canvas: its size and the calls made on its 2d context, in order (a new
\* canvas is transparent black, and a fill with '#FFFFFF' at the default
\* alpha is opaque white).
NoCanvas == [width |-> 0, height |-> 0, ops |-> <<>>]

fillRect(style, x, y, width, height) ==
    [op |-> "fillRect", style |-> style, x |-> x, y |-> y,
     width |-> width, height |-> height]

\* ctx.drawImage(img, x, y) draws the image at its own size.
drawImage(img, x, y) ==
    [op |-> "drawImage", style |-> "", x |-> x, y |-> y,
     width |-> img.width, height |-> img.height]

\* Mutant: the white background is painted for every target format.
setupCanvas_alwaysFill(img, targetFormat) ==
    [width |-> img.width,
     height |-> img.height,
     ops |-> <<fillRect("#FFFFFF", 0, 0, img.width, img.height),
               drawImage(img, 0, 0)>>]

\* A new canvas always has a 2d context, so the if (ctx) branch is taken.
setupCanvas(img, targetFormat) ==
    LET width == img.width
        height == img.height
        fill == IF targetFormat = s_jpg \/ targetFormat = s_jpeg
                THEN <<fillRect("#FFFFFF", 0, 0, width, height)>>
                ELSE <<>>
    IN  [width |-> width,
         height |-> height,
         ops |-> fill \o <<drawImage(img, 0, 0)>>]

\* convertImage after canvasToBlob resolved with blob: the store with the
\* result URL in it, and the returned { url, size }.
convertImage_result(store, blob) ==
    LET store1 == createObjectURL(store, "convertImage", blob)
    IN  [urlStore |-> store1, url |-> Len(store1), size |-> blob.size]

(***************************************************************************)
(* ImageConverter: cleanup.                                                *)
(***************************************************************************)
\* Mutant: cleanupFile revokes the original URL only.
cleanupFile_originalOnly(store, file) == revokeObjectURL(store, file.originalUrl)

cleanupFile(store, file) ==
    LET store1 == revokeObjectURL(store, file.originalUrl)
    IN  IF file.convertedUrl # EmptyUrl
        THEN revokeObjectURL(store1, file.convertedUrl)
        ELSE store1

\* Mutant: only the first record is cleaned up.
cleanupFiles_firstOnly(store, fs) ==
    IF fs = <<>> THEN store ELSE cleanupFile(store, Head(fs))

RECURSIVE cleanupFiles(_, _)
cleanupFiles(store, fs) ==
    IF fs = <<>>
    THEN store
    ELSE cleanupFiles(cleanupFile(store, Head(fs)), Tail(fs))

\* Mutant: the update is applied to every record that is converting.
onConverted_everyConverting(fs, id, result) ==
    [k \in 1..Len(fs) |->
        IF fs[k].isConverting
        THEN [fs[k] EXCEPT !.convertedUrl = result.url,
                           !.convertedSize = result.size,
                           !.isConverting = FALSE]
        ELSE fs[k]]

\* Mutant: the update leaves isConverting as it was.
onConverted_stillConverting(fs, id, result) ==
    [k \in 1..Len(fs) |->
        IF fs[k].id = id
        THEN [fs[k] EXCEPT !.convertedUrl = result.url,
                           !.convertedSize = result.size]
        ELSE fs[k]]

\* files = files.map(f => f.id === id ? {...f, convertedUrl, convertedSize,
\* isConverting: false} : f)
onConverted(fs, id, result) ==
    [k \in 1..Len(fs) |->
        IF fs[k].id = id
        THEN [fs[k] EXCEPT !.convertedUrl = result.url,
                           !.convertedSize = result.size,
                           !.isConverting = FALSE]
        ELSE fs[k]]

(***************************************************************************)
(* Direct calls of cleanupFile and cleanupFiles.  The caller holds one     *)
(* record for each file of the list, those at the indexes of conv already  *)
(* converted (to jpg); st is the store and the records made so far.        *)
(***************************************************************************)
RECURSIVE RecordsFor(_, _, _, _)
RecordsFor(st, fileList, conv, k) ==
    IF k > Len(fileList)
    THEN st
    ELSE LET file == fileList[k]
             store1 == createObjectURL(st.urlStore, "createConvertedFileRecord",
                                       FileBlob(file))
             record == createConvertedFileRecord(file, s_jpg, k, Len(store1))
             blob == toBlob(TRUE, setupCanvas(file, s_jpg),
                            getFormatConfig(s_jpg).mimeType)
             r == convertImage_result(store1, blob)
         IN  IF k \in conv
             THEN RecordsFor(
                      [urlStore |-> r.urlStore,
                       files |-> st.files \o onConverted(<<record>>, k, r)],
                      fileList, conv, k + 1)
             ELSE RecordsFor(
                      [urlStore |-> store1, files |-> Append(st.files, record)],
                      fileList, conv, k + 1)

CallCleanupFile ==
    /\ call.op = "none"
    /\ Len(call.fileList) = 1
    /\ \E conv \in SUBSET {1} :
          LET st == RecordsFor([urlStore |-> urlStore, files |-> <<>>],
                               call.fileList, conv, 1)
          IN  /\ urlStore' = cleanupFile(st.urlStore, st.files[1])
              /\ nextId' = nextId + 1
              /\ call' = [call EXCEPT !.op = "cleanupFile",
                                      !.given = st.files,
                                      !.ret = st.files]
    /\ UNCHANGED componentVars

CallCleanupFiles ==
    /\ call.op = "none"
    /\ \E conv \in SUBSET (1..Len(call.fileList)) :
          LET st == RecordsFor([urlStore |-> urlStore, files |-> <<>>],
                               call.fileList, conv, 1)
          IN  /\ urlStore' = cleanupFiles(st.urlStore, st.files)
              /\ nextId' = nextId + Len(call.fileList)
              /\ call' = [call EXCEPT !.op = "cleanupFiles",
                                      !.given = st.files,
                                      !.ret = st.files]
    /\ UNCHANGED componentVars

\* setupCanvas on a decoded image of any size, for any target format.
CallSetupCanvas ==
    /\ call.op = "none"
    /\ call.fileList = <<>>
    /\ \E targetFormat \in ImageFormat :
       \E width \in 0..MaxImageSide : \E height \in 0..MaxImageSide :
          LET img == [width |-> width, height |-> height]
          IN  call' = [call EXCEPT !.op = "setupCanvas",
                                  !.given = <<img>>,
                                  !.targetFormat = targetFormat,
                                  !.ret = setupCanvas(img, targetFormat)]
    /\ UNCHANGED <<componentVars, urlStore, nextId>>

ServiceNext ==
    \/ CallDoesSupportFileType
    \/ CallFilterSupportedFiles
    \/ CallCreateConvertedFileRecord
    \/ CallCleanupFile
    \/ CallCleanupFiles
    \/ CallSetupCanvas

ServiceSpec == ServiceInit /\ [][ServiceNext]_vars

(***************************************************************************)
(* The component: handleFiles.  A task is one invocation: imageFiles is    *)
(* the filtered list, i the index of the loop's current file, pc where the *)
(* awaited convertImage is suspended ("reading": FileReader, "decoding":   *)
(* the image element, "encoding": canvas.toBlob) or "done"; convertedFile  *)
(* and targetFormat are the loop body's record and the format it passed to *)
(* convertImage; waits is the number of platform callbacks the awaited     *)
(* call has resumed on so far; settled is how its latest convertImage call *)
(* settled, for which record, with which { url, size } and on which        *)
(* callback, counted from the call's start.                                *)
(* Everything between two platform callbacks runs in one step: promise     *)
(* continuations are microtasks, which run before the next event.          *)
(***************************************************************************)
NoRecord == [id |-> 0]

NotSettled ==
    [state |-> "none", record |-> NoRecord, targetFormat |-> <<>>,
     url |-> EmptyUrl, size |-> 0, waits |-> 0]

\* Mutant: the catch block drops every record that is still converting.
onFailed_dropConverting(fs, id) ==
    LET done(f) == ~f.isConverting
    IN  SelectSeq(fs, done)

\* Mutant: the catch block removes the newest record, whatever its id.
onFailed_dropLast(fs, id) == SubSeq(fs, 1, Len(fs) - 1)

\* files = files.filter(f => f.id !== id)
onFailed(fs, id) ==
    LET others(f) == f.id # id
    IN  SelectSeq(fs, others)

\* Mutant: loadImage hands every file, SVG included, to the image element
\* at once.
BeginIteration_noReader(st, task) ==
    LET file == task.imageFiles[task.i]
        store1 == createObjectURL(st.urlStore, "createConvertedFileRecord", FileBlob(file))
        convertedFile ==
            createConvertedFileRecord(file, selectedFormat, st.nextId, Len(store1))
    IN  [files |-> Append(st.files, convertedFile),
         urlStore |-> createObjectURL(store1, "loadImage", FileBlob(file)),
         nextId |-> st.nextId + 1,
         task |-> [task EXCEPT !.pc = "decoding",
                               !.convertedFile = convertedFile,
                               !.targetFormat = selectedFormat,
                               !.canvas = NoCanvas,
                               !.waits = 0]]

\* Mutant: convertImage is called with the default format, not the selection.
BeginIteration_defaultFormat(st, task) ==
    LET file == task.imageFiles[task.i]
        store1 == createObjectURL(st.urlStore, "createConvertedFileRecord", FileBlob(file))
        convertedFile ==
            createConvertedFileRecord(file, selectedFormat, st.nextId, Len(store1))
        isSvg == file.type = SvgType
    IN  [files |-> Append(st.files, convertedFile),
         urlStore |-> IF isSvg
                      THEN store1
                      ELSE createObjectURL(store1, "loadImage", FileBlob(file)),
         nextId |-> st.nextId + 1,
         task |-> [task EXCEPT !.pc = IF isSvg THEN "reading" ELSE "decoding",
                               !.convertedFile = convertedFile,
                               !.targetFormat = s_jpg,
                               !.canvas = NoCanvas,
                               !.waits = 0]]

\* One pass of the loop body up to the first suspension of convertImage:
\* create the record, append it, call convertImage, which calls loadImage.
BeginIteration(st, task) ==
    LET file == task.imageFiles[task.i]
        store1 == createObjectURL(st.urlStore, "createConvertedFileRecord", FileBlob(file))
        convertedFile ==
            createConvertedFileRecord(file, selectedFormat, st.nextId, Len(store1))
        isSvg == file.type = SvgType
    IN  [files |-> Append(st.files, convertedFile),
         urlStore |-> IF isSvg
                      THEN store1
                      ELSE createObjectURL(store1, "loadImage", FileBlob(file)),
         nextId |-> st.nextId + 1,
         task |-> [task EXCEPT !.pc = IF isSvg THEN "reading" ELSE "decoding",
                               !.convertedFile = convertedFile,
                               !.targetFormat = selectedFormat,
                               !.canvas = NoCanvas,
                               !.waits = 0]]

\* Mutant: the loop stops early when it finds the list empty.
NextIteration_stopsOnEmptyList(st, task) ==
    IF task.i < Len(task.imageFiles) /\ (task.i = 0 \/ st.files # <<>>)
    THEN BeginIteration(st, [task EXCEPT !.i = @ + 1])
    ELSE [st EXCEPT !.task = [task EXCEPT !.pc = "done", !.i = @ + 1]]

\* The loop goes on to its next file, or handleFiles returns (it then
\* clears fileInput.value, a DOM property the model does not hold).
NextIteration(st, task) ==
    IF task.i < Len(task.imageFiles)
    THEN BeginIteration(st, [task EXCEPT !.i = @ + 1])
    ELSE [st EXCEPT !.task = [task EXCEPT !.pc = "done", !.i = @ + 1]]

\* Mutant: the loop goes on without marking the record converted.
Resolved_noUpdate(st, task, result) ==
    NextIteration(
        st,
        [task EXCEPT !.settled =
            [state |-> "resolved", record |-> task.convertedFile,
             targetFormat |-> task.targetFormat,
             url |-> result.url, size |-> result.size,
             waits |-> task.waits + 1]])

\* convertImage resolved with result: update the record, go on.
Resolved(st, task, result) ==
    NextIteration(
        [st EXCEPT !.files = onConverted(st.files, task.convertedFile.id, result)],
        [task EXCEPT !.settled =
            [state |-> "resolved", record |-> task.convertedFile,
             targetFormat |-> task.targetFormat,
             url |-> result.url, size |-> result.size,
             waits |-> task.waits + 1]])

\* Mutant: no try/catch around the await, so the rejection ends handleFiles
\* with the record still in the list.
Rejected_uncaught(st, task) ==
    [st EXCEPT !.task =
        [task EXCEPT !.pc = "done",
                     !.i = @ + 1,
                     !.settled = [state |-> "rejected", record |-> task.convertedFile,
                                  targetFormat |-> task.targetFormat,
                                  url |-> EmptyUrl, size |-> 0,
                                  waits |-> task.waits + 1]]]

\* convertImage rejected: remove the record, go on.
Rejected(st, task) ==
    NextIteration(
        [st EXCEPT !.files = onFailed(st.files, task.convertedFile.id)],
        [task EXCEPT !.settled =
            [state |-> "rejected", record |-> task.convertedFile,
             targetFormat |-> task.targetFormat,
             url |-> EmptyUrl, size |-> 0,
             waits |-> task.waits + 1]])

State == [files |-> files, urlStore |-> urlStore, nextId |-> nextId, task |-> NoRecord]

Commit(st, t) ==
    /\ files' = st.files
    /\ urlStore' = st.urlStore
    /\ nextId' = st.nextId
    /\ tasks' = [tasks EXCEPT ![t] = st.task]

\* handleFileSelect / handleDrop: the user hands over a collection of files,
\* while the user has done less than budget and handed over fewer than
\* admissions collections.
HandleFilesWithin(budget, admissions) ==
    /\ userActions < budget
    /\ Len(tasks) < admissions
    /\ \E fileList \in SeqsUpTo(UserFiles, budget - userActions) \ {<<>>} :
          LET task == [fileList |-> fileList,
                       imageFiles |-> filterSupportedFiles(fileList),
                       i |-> 0,
                       pc |-> "done",
                       convertedFile |-> NoRecord,
                       targetFormat |-> selectedFormat,
                       canvas |-> NoCanvas,
                       waits |-> 0,
                       settled |-> NotSettled]
              st == NextIteration(State, task)
          IN  /\ files' = st.files
              /\ urlStore' = st.urlStore
              /\ nextId' = st.nextId
              /\ tasks' = Append(tasks, st.task)
              /\ userActions' = userActions + Len(fileList)
    /\ UNCHANGED <<selectedFormat, downloads, call>>

HandleFiles == HandleFilesWithin(MaxUserActions, MaxTasks)

\* reader.onload: wrap the text in a blob, point the image at its URL.
ReaderOnLoad(t) ==
    /\ tasks[t].pc = "reading"
    /\ urlStore' = createObjectURL(urlStore, "loadImage",
                       [type |-> SvgType, size |-> tasks[t].imageFiles[tasks[t].i].size])
    /\ tasks' = [tasks EXCEPT ![t].pc = "decoding", ![t].waits = @ + 1]
    /\ UNCHANGED <<files, nextId, selectedFormat, downloads, call, userActions>>

\* reader.onerror: loadImage rejects.
ReaderOnError(t) ==
    /\ tasks[t].pc = "reading"
    /\ Commit(Rejected(State, tasks[t]), t)
    /\ UNCHANGED <<selectedFormat, downloads, call, userActions>>

\* img.onload: draw on the canvas and ask for its blob.
ImgOnLoad(t) ==
    /\ tasks[t].pc = "decoding"
    /\ tasks' = [tasks EXCEPT
           ![t].pc = "encoding",
           ![t].waits = @ + 1,
           ![t].canvas = setupCanvas(tasks[t].imageFiles[tasks[t].i], tasks[t].targetFormat)]
    /\ UNCHANGED <<files, urlStore, nextId, selectedFormat, downloads, call, userActions>>

\* img.onerror: loadImage rejects.
ImgOnError(t) ==
    /\ tasks[t].pc = "decoding"
    /\ Commit(Rejected(State, tasks[t]), t)
    /\ UNCHANGED <<selectedFormat, downloads, call, userActions>>

\* The toBlob callback: with a blob convertImage resolves, with null it rejects.
ToBlobCallback(t) ==
    /\ tasks[t].pc = "encoding"
    /\ \E encodes \in BOOLEAN :
          LET blob == toBlob(encodes, tasks[t].canvas,
                             getFormatConfig(tasks[t].targetFormat).mimeType)
          IN  IF blob # null
              THEN LET r == convertImage_result(urlStore, blob)
                   IN  Commit(Resolved([State EXCEPT !.urlStore = r.urlStore],
                                       tasks[t], [url |-> r.url, size |-> r.size]), t)
              ELSE Commit(Rejected(State, tasks[t]), t)
    /\ UNCHANGED <<selectedFormat, downloads, call, userActions>>

\* The format buttons (a click on the selected one changes nothing).
SelectFormat ==
    /\ userActions < MaxUserActions
    /\ \E format \in FORMAT_OPTIONS \ {selectedFormat} : selectedFormat' = format
    /\ userActions' = userActions + 1
    /\ UNCHANGED <<files, urlStore, nextId, tasks, downloads, call>>

\* The Remove button of a record.
removeFile(k) ==
    /\ userActions < MaxUserActions
    /\ userActions' = userActions + 1
    /\ k \in 1..Len(files)
    /\ urlStore' = cleanupFile(urlStore, files[k])
    /\ files' = LET kept(f) == f.id # files[k].id IN SelectSeq(files, kept)
    /\ UNCHANGED <<nextId, selectedFormat, tasks, downloads, call>>

\* The Clear All button, shown while the list holds more than one record.
clearAllWithin(budget) ==
    /\ userActions < budget
    /\ userActions' = userActions + 1
    /\ Len(files) > 1
    /\ urlStore' = cleanupFiles(urlStore, files)
    /\ files' = <<>>
    /\ UNCHANGED <<nextId, selectedFormat, tasks, downloads, call>>

clearAll == clearAllWithin(MaxUserActions)

(***************************************************************************)
(* ImageConverter.downloadFile.  A download is one invocation: file is the *)
(* record it was given, pc where it is suspended ("fetching": fetch,       *)
(* "reading": response.blob()) or how it settled ("resolved", "rejected"), *)
(* steps what it did in order, href and download the link's attributes.    *)
(***************************************************************************)
downloadFile_start(file) ==
    [file |-> file, pc |-> "fetching", steps |-> <<"fetch">>,
     href |-> EmptyUrl, download |-> <<>>]

\* fetch resolved: await response.blob().
downloadFile_fetched(d) == [d EXCEPT !.pc = "reading", !.steps = Append(@, "blob")]

\* response.blob() resolved; url is the second object URL, made from the blob.
downloadFile_save(d, url) ==
    [d EXCEPT !.pc = "resolved",
              !.href = url,
              !.download = d.file.filename,
              !.steps = @ \o <<"createObjectURL", "appendChild", "click", "removeChild">>]

\* Mutant: the catch block rethrows after logging.
downloadFile_catch_rethrow(d) ==
    [d EXCEPT !.pc = "rejected", !.steps = Append(@, "console.error")]

\* The catch block: log, and return normally.
downloadFile_catch(d) ==
    [d EXCEPT !.pc = "resolved", !.steps = Append(@, "console.error")]

\* The Download button of a record that is no longer converting.
downloadFile(k) ==
    /\ k \in 1..Len(files)
    /\ ~files[k].isConverting
    /\ userActions < MaxUserActions
    /\ userActions' = userActions + 1
    /\ downloads' = Append(downloads, downloadFile_start(files[k]))
    /\ UNCHANGED <<files, urlStore, nextId, selectedFormat, tasks, call>>

\* fetch(file.convertedUrl) settles: it can resolve only while the URL is live.
FetchSettles(n) ==
    /\ downloads[n].pc = "fetching"
    /\ \E ok \in BOOLEAN :
          /\ ok => IsLive(urlStore, downloads[n].file.convertedUrl)
          /\ downloads' = [downloads EXCEPT ![n] =
                 IF ok THEN downloadFile_fetched(@) ELSE downloadFile_catch(@)]
    /\ UNCHANGED <<files, urlStore, nextId, selectedFormat, tasks, call, userActions>>

\* response.blob() settles; on success the rest of the try block runs.
BlobSettles(n) ==
    /\ downloads[n].pc = "reading"
    /\ \E ok \in BOOLEAN :
          IF ok
          THEN LET store1 == createObjectURL(urlStore, "downloadFile",
                                 urlStore[downloads[n].file.convertedUrl].blob)
               IN  /\ urlStore' = store1
                   /\ downloads' = [downloads EXCEPT ![n] = downloadFile_save(@, Len(store1))]
          ELSE /\ urlStore' = urlStore
               /\ downloads' = [downloads EXCEPT ![n] = downloadFile_catch(@)]
    /\ UNCHANGED <<files, nextId, selectedFormat, tasks, call, userActions>>

(***************************************************************************)
(* The component in the browser.                                           *)
(***************************************************************************)
Init == ComponentInit /\ call = NoCall

Next ==
    \/ HandleFiles
    \/ \E t \in 1..Len(tasks) : ReaderOnLoad(t)
    \/ \E t \in 1..Len(tasks) : ReaderOnError(t)
    \/ \E t \in 1..Len(tasks) : ImgOnLoad(t)
    \/ \E t \in 1..Len(tasks) : ImgOnError(t)
    \/ \E t \in 1..Len(tasks) : ToBlobCallback(t)
    \/ SelectFormat
    \/ \E k \in 1..Len(files) : removeFile(k)
    \/ clearAll
    \/ \E k \in 1..Len(files) : downloadFile(k)
    \/ \E n \in 1..Len(downloads) : FetchSettles(n)
    \/ \E n \in 1..Len(downloads) : BlobSettles(n)

Spec == Init /\ [][Next]_vars

\* The platform reports to invocation t: the FileReader, the image element
\* and canvas.toBlob each call back with completion or with failure.
PlatformReports(t) ==
    /\ t \in 1..Len(tasks)
    /\ \/ ReaderOnLoad(t)
       \/ ReaderOnError(t)
       \/ ImgOnLoad(t)
       \/ ImgOnError(t)
       \/ ToBlobCallback(t)

\* The component when the user hands over one collection and otherwise only
\* clicks Clear All: with nothing else to do, the model lets the user do one
\* thing more.
BatchNext ==
    \/ HandleFilesWithin(MaxUserActions + 1, 1)
    \/ \E t \in 1..Len(tasks) : ReaderOnLoad(t)
    \/ \E t \in 1..Len(tasks) : ReaderOnError(t)
    \/ \E t \in 1..Len(tasks) : ImgOnLoad(t)
    \/ \E t \in 1..Len(tasks) : ImgOnError(t)
    \/ \E t \in 1..Len(tasks) : ToBlobCallback(t)
    \/ clearAllWithin(MaxUserActions + 1)

BatchSpec == Init /\ [][BatchNext]_vars

\* The component in a browser that reports every read, decode and encode.
FairSpec == Spec /\ \A t \in 1..MaxTasks : WF_vars(PlatformReports(t))

(***************************************************************************)
(* Properties of the service's synchronous methods (ServiceSpec).          *)
(***************************************************************************)
HasDot(name) == \E i \in 1..Len(name) : name[i] = "."

LastDot(name) ==
    CHOOSE i \in 1..Len(name) :
        name[i] = "." /\ \A j \in (i + 1)..Len(name) : name[j] # "."

TextAfterLastDot(name) == SubSeq(name, LastDot(name) + 1, Len(name))

TextBeforeLastDot(name) == SubSeq(name, 1, LastDot(name) - 1)

\* The name has an extension listed in the extension allow-list: it has a
\* dot, and the lowercased text after its last dot is listed.
HasListedExtension(name) ==
    HasDot(name) /\ toLowerCase(TextAfterLastDot(name)) \in SUPPORTED_EXTENSIONS

EndsWith(s, suffix) ==
    /\ Len(suffix) <= Len(s)
    /\ SubSeq(s, Len(s) - Len(suffix) + 1, Len(s)) = suffix

\* The name without its trailing extension: a name with no dot, or with
\* nothing after its last dot, has no extension and is kept whole.
TrailingExtRemoved(name) ==
    IF HasDot(name) /\ TextAfterLastDot(name) # <<>>
    THEN TextBeforeLastDot(name)
    ELSE name

CanonicalExt(targetFormat) == IF targetFormat = s_jpeg THEN s_jpg ELSE targetFormat

\* C1: doesSupportFileType returns true exactly when the media type is in
\* the media-type allow-list or the lowercased text after the last '.' of the
\* name is in the extension allow-list, and false in every other case.
C1_SupportedIffTypeOrExtensionListed ==
    call.op = "doesSupportFileType" =>
        LET file == call.fileList[1]
        IN  call.ret = (\/ file.type \in SUPPORTED_INPUT_FORMATS
                        \/ HasListedExtension(file.name))

\* C2: a file whose media type is not allow-listed and whose name has an
\* unlisted extension or no extension at all (no '.') is not supported.
C2_UnlistedTypeAndNoListedExtensionRejected ==
    call.op = "doesSupportFileType" =>
        LET file == call.fileList[1]
        IN  (/\ file.type \notin SUPPORTED_INPUT_FORMATS
             /\ \/ ~HasDot(file.name)
                \/ toLowerCase(TextAfterLastDot(file.name)) \notin SUPPORTED_EXTENSIONS)
            => call.ret = FALSE

SupportedIndexes(fileList) ==
    {i \in 1..Len(fileList) : doesSupportFileType(fileList[i])}

KthSmallest(S, k) == CHOOSE i \in S : Cardinality({j \in S : j < i}) = k - 1

\* C3: filterSupportedFiles returns exactly the supported elements in their
\* input order and leaves the input as it was; filtering its own result
\* returns that result, and nothing supported yields the empty list.
C3_FilterKeepsSupportedInOrder ==
    call.op \in {"filterSupportedFiles", "filterSupportedFilesAgain"} =>
        LET idx == SupportedIndexes(call.fileList)
        IN  /\ call.fileList = call.given
            /\ Len(call.ret) = Cardinality(idx)
            /\ \A k \in 1..Len(call.ret) :
                  call.ret[k] = call.fileList[KthSmallest(idx, k)]
            /\ (idx = {} => call.ret = <<>>)
            /\ (call.op = "filterSupportedFilesAgain" => call.ret = call.fileList)

C3_Witness ==
    /\ call.op = "filterSupportedFiles"
    /\ Len(call.fileList) = 3
    /\ ~doesSupportFileType(call.fileList[2])
    /\ Len(call.ret) = 2
    /\ call.ret[1] # call.ret[2]

\* C4: createConvertedFileRecord returns a record that is converting, has
\* converted size 0, no converted URL, the file's size, the given target
\* format and a filename ending in '.<targetFormat>'; it creates exactly one
\* object URL (the original's) and revokes none.
C4_NewRecordIsConverting ==
    call.op = "createConvertedFileRecord" =>
        LET file == call.fileList[1]
            r == call.ret
        IN  /\ r.isConverting = TRUE
            /\ r.convertedSize = 0
            /\ r.convertedUrl = EmptyUrl
            /\ r.originalSize = file.size
            /\ r.targetFormat = call.targetFormat
            /\ EndsWith(r.filename, s_dot \o call.targetFormat)
            /\ Len(urlStore) = 1
            /\ r.originalUrl = 1
            /\ urlStore[1].by = "createConvertedFileRecord"
            /\ urlStore[1].blob = FileBlob(file)
            /\ urlStore[1].revoked = 0

C4_Witness ==
    /\ call.op = "createConvertedFileRecord"
    /\ call.targetFormat = s_webp
    /\ call.fileList[1].size > 0
    /\ IsLive(urlStore, call.ret.originalUrl)

\* C5 (as claimed): the filename is the name without its trailing extension,
\* then '.', then the target format's canonical extension (jpeg gives jpg).
C5_FilenameUsesCanonicalExtension ==
    call.op = "createConvertedFileRecord" =>
        call.ret.filename =
            TrailingExtRemoved(call.fileList[1].name) \o s_dot
                \o CanonicalExt(call.targetFormat)

\* C5 (amended): the filename is the name without its trailing extension,
\* then '.', then the target format as given (jpeg gives '.jpeg').
C5_FilenameUsesTargetFormat ==
    call.op = "createConvertedFileRecord" =>
        call.ret.filename =
            TrailingExtRemoved(call.fileList[1].name) \o s_dot \o call.targetFormat

C5_Witness ==
    /\ call.op = "createConvertedFileRecord"
    /\ call.targetFormat = s_jpeg
    /\ call.fileList[1].name = <<"a", ".", ".", "p", "n", "g">>
    /\ call.ret.filename = <<"a", ".", ".", "j", "p", "e", "g">>

\* C6: the source format is the extension the table gives for the media
\* type, and 'unknown' whenever the media type is empty or not in the table,
\* whatever the extension of the name.
C6_SourceFormatFromMediaTypeOnly ==
    call.op = "createConvertedFileRecord" =>
        LET file == call.fileList[1]
        IN  call.ret.sourceFormat =
                IF file.type \in DOMAIN MIME_TO_EXT
                THEN MIME_TO_EXT[file.type]
                ELSE s_unknown

C6_Witness ==
    /\ call.op = "createConvertedFileRecord"
    /\ call.fileList[1].type = ""
    /\ HasListedExtension(call.fileList[1].name)
    /\ call.ret.sourceFormat = s_unknown

\* The number of calls of revokeObjectURL that releasing the record takes.
Releases(file) == IF file.convertedUrl = EmptyUrl THEN 1 ELSE 2

RECURSIVE ReleasesOf(_)
ReleasesOf(fs) == IF fs = <<>> THEN 0 ELSE Releases(Head(fs)) + ReleasesOf(Tail(fs))

\* C11: cleanupFile revokes exactly the original URL of a record whose
\* converted URL is empty, and exactly the original and the converted URL of
\* a record that has one; cleanupFiles does so for each record in input
\* order, so the number of revocations is the sum over the records, and zero
\* for the empty list.  The records are as they were given.
C11_CleanupReleasesEachHandleOnce ==
    call.op \in {"cleanupFile", "cleanupFiles"} =>
        LET fs == call.given
        IN  /\ call.ret = call.given
            /\ call.op = "cleanupFile" =>
                   /\ Len(fs) = 1
                   /\ Revocations(urlStore) =
                          IF fs[1].convertedUrl = EmptyUrl THEN 1 ELSE 2
            /\ Revocations(urlStore) = ReleasesOf(fs)
            /\ fs = <<>> => Revocations(urlStore) = 0
            /\ \A k \in 1..Len(fs) :
                   LET before == ReleasesOf(SubSeq(fs, 1, k - 1))
                   IN  /\ urlStore[fs[k].originalUrl].revoked = 1
                       /\ urlStore[fs[k].originalUrl].at = before + 1
                       /\ fs[k].convertedUrl # EmptyUrl =>
                              /\ urlStore[fs[k].convertedUrl].revoked = 1
                              /\ urlStore[fs[k].convertedUrl].at = before + 2

C11_Witness ==
    /\ call.op = "cleanupFiles"
    /\ Len(call.given) = 3
    /\ call.given[1].convertedUrl = EmptyUrl
    /\ call.given[2].convertedUrl # EmptyUrl
    /\ call.given[3].convertedUrl # EmptyUrl
    /\ Revocations(urlStore) = 5


(***************************************************************************)
(* Properties of conversion and download in the component (Spec).          *)
(***************************************************************************)
\* The media type each target format is expected to be encoded as.
ExpectedMimeType(targetFormat) ==
    CASE targetFormat = s_png -> "image/png"
      [] targetFormat = s_jpg -> "image/jpeg"
      [] targetFormat = s_jpeg -> "image/jpeg"
      [] targetFormat = s_webp -> "image/webp"

\* C7: a convertImage call that resolved returned a URL whose blob has the
\* media type of the target format, and a size that is positive and equal to
\* the size of the blob a fetch of that URL yields.
C7_ResultHasTargetTypeAndSize ==
    \A t \in 1..Len(tasks) :
        tasks[t].settled.state = "resolved" =>
            LET r == tasks[t].settled
            IN  /\ r.url \in DOMAIN urlStore
                /\ urlStore[r.url].by = "convertImage"
                /\ urlStore[r.url].blob.type = ExpectedMimeType(r.targetFormat)
                /\ r.size > 0
                /\ r.size = urlStore[r.url].blob.size

C7_Witness ==
    \E t \in 1..Len(tasks) :
        /\ tasks[t].settled.state = "resolved"
        /\ tasks[t].settled.targetFormat = s_webp
        /\ tasks[t].settled.record.originalFile = SvgFile
        /\ IsLive(urlStore, tasks[t].settled.url)

\* A step in which the convertImage call of task t settles.
Settles(t) == t \in 1..Len(tasks) /\ tasks'[t].i = tasks[t].i + 1

RecordsOtherThan(fs, id) ==
    LET other(f) == f.id # id
    IN  SelectSeq(fs, other)

\* The records of fs that existed before this step (ids are handed out in order).
RecordsOlderThan(fs, id) ==
    LET older(f) == f.id < id
    IN  SelectSeq(fs, older)

\* C8: when the read, the decode or the encode fails, convertImage rejects
\* and creates no result URL; the record of that file is removed from the
\* list without ever having been marked converted, it is never in the list
\* again, and every other record stays as it was, in place.
C8_FailureRemovesOnlyThatRecord ==
    /\ [](\A t \in 1..Len(tasks) :
            tasks[t].settled.state = "rejected" =>
                \A k \in 1..Len(files) : files[k].id # tasks[t].settled.record.id)
    /\ [][\A t \in 1..Len(tasks) :
            (Settles(t) /\ tasks'[t].settled.state = "rejected") =>
                LET id == tasks[t].convertedFile.id
                IN  /\ \A u \in DOMAIN urlStore' \ DOMAIN urlStore :
                          urlStore'[u].by # "convertImage"
                    /\ \A k \in 1..Len(files) :
                          files[k].id = id =>
                              /\ files[k].isConverting
                              /\ files[k].convertedUrl = EmptyUrl
                              /\ files[k].convertedSize = 0
                    /\ \A k \in 1..Len(files') : files'[k].id # id
                    /\ RecordsOlderThan(files', nextId) = RecordsOtherThan(files, id)]_vars

C8_Witness ==
    \E t \in 1..Len(tasks) :
        /\ tasks[t].settled.state = "rejected"
        /\ \E k \in 1..Len(files) : files[k].isConverting
        /\ \E k \in 1..Len(files) : ~files[k].isConverting

\* C9: after a failed conversion has been handled, the original URL of the
\* record created for that file has been revoked exactly once.
C9_FailureReleasesOriginalHandle ==
    \A t \in 1..Len(tasks) :
        tasks[t].settled.state = "rejected" =>
            urlStore[tasks[t].settled.record.originalUrl].revoked = 1

DownloadSaved(d) == d.pc = "resolved" /\ d.href # EmptyUrl

DownloadFailed(d) == d.pc = "resolved" /\ d.steps[Len(d.steps)] = "console.error"

SavedDownloads == {n \in 1..Len(downloads) : DownloadSaved(downloads[n])}

DownloadUrls == {u \in DOMAIN urlStore : urlStore[u].by = "downloadFile"}

\* C10: downloadFile never rejects.  When the fetch or the read of the bytes
\* fails it logs, creates no second URL and triggers no save; when it
\* succeeds it fetches the converted URL, reads the blob, creates a second
\* URL from it, appends the link, clicks it and removes it, and the download
\* is named after the record's filename.  No step of a download changes the
\* record it was given or the list.
C10_DownloadAlwaysResolves ==
    /\ [](/\ \A n \in 1..Len(downloads) :
               LET d == downloads[n]
               IN  /\ d.pc \in {"fetching", "reading", "resolved"}
                   /\ d.pc = "resolved" => (DownloadSaved(d) \/ DownloadFailed(d))
                   /\ DownloadFailed(d) =>
                          /\ d.href = EmptyUrl
                          /\ \A j \in 1..Len(d.steps) :
                                d.steps[j] \notin {"createObjectURL", "appendChild", "click"}
                   /\ DownloadSaved(d) =>
                          /\ d.steps = <<"fetch", "blob", "createObjectURL",
                                         "appendChild", "click", "removeChild">>
                          /\ d.download = d.file.filename
                          /\ d.href \in DownloadUrls
                          /\ urlStore[d.href].blob = urlStore[d.file.convertedUrl].blob
          /\ Cardinality(DownloadUrls) = Cardinality(SavedDownloads))
    /\ [][downloads' # downloads =>
            /\ files' = files
            /\ \A n \in 1..Len(downloads) : downloads'[n].file = downloads[n].file]_vars

C10_Witness ==
    /\ \E n \in 1..Len(downloads) : DownloadSaved(downloads[n])
    /\ \E n \in 1..Len(downloads) :
          /\ DownloadFailed(downloads[n])
          /\ downloads[n].steps = <<"fetch", "console.error">>


(***************************************************************************)
(* Properties of admission, scheduling and release in the component (Spec). *)
(***************************************************************************)
\* The step admits a collection: handleFiles is invoked.
Admits == Len(tasks') = Len(tasks) + 1

\* The records handleFiles invocation t has created so far.
CreatedBy(t) ==
    IF tasks[t].i > Len(tasks[t].imageFiles)
    THEN Len(tasks[t].imageFiles)
    ELSE tasks[t].i

RECURSIVE CreatedByFirst(_)
CreatedByFirst(n) == IF n = 0 THEN 0 ELSE CreatedBy(n) + CreatedByFirst(n - 1)

\* C12: admitting a collection none of whose files is supported creates no
\* record: the list and the URL store stay as they were and no conversion
\* is started; in every collection, records are created for the supported
\* files only.
C12_UnsupportedFilesCreateNoRecord ==
    /\ [](/\ \A k \in 1..Len(files) : doesSupportFileType(files[k].originalFile)
          /\ \A t \in 1..Len(tasks) :
                 /\ Len(tasks[t].imageFiles) =
                        Cardinality(SupportedIndexes(tasks[t].fileList))
                 /\ tasks[t].pc # "done" =>
                        doesSupportFileType(tasks[t].imageFiles[tasks[t].i])
          /\ nextId - 1 = CreatedByFirst(Len(tasks)))
    /\ [][(Admits /\ SupportedIndexes(tasks'[Len(tasks')].fileList) = {}) =>
            /\ files' = files
            /\ urlStore' = urlStore
            /\ nextId' = nextId
            /\ tasks'[Len(tasks')].pc = "done"
            /\ tasks'[Len(tasks')].convertedFile = NoRecord]_vars

C12_Witness ==
    /\ Len(tasks) = 2
    /\ tasks[1].fileList = <<TxtFile>>
    /\ tasks[1].pc = "done"
    /\ tasks[2].fileList = <<TxtFile, PngFile>>
    /\ Len(files) = 1
    /\ files[1].originalFile = PngFile
    /\ nextId = 2

InProgress(id) == \E k \in 1..Len(files) : files[k].id = id /\ files[k].isConverting

Done(file) ==
    ~file.isConverting /\ file.convertedUrl # EmptyUrl /\ file.convertedSize > 0

DoneOrGone(id) == \A k \in 1..Len(files) : files[k].id = id => Done(files[k])

\* A record was removed by the user: removeFile and clearAll are the only
\* callers of revokeObjectURL.
SomeRemoved == Revocations(urlStore) > 0

\* A conversion failed: its record left the list with its original URL
\* not revoked.
SomeFailed ==
    \E u \in DOMAIN urlStore :
        /\ urlStore[u].by = "createConvertedFileRecord"
        /\ urlStore[u].revoked = 0
        /\ \A k \in 1..Len(files) : files[k].originalUrl # u

AllDone ==
    /\ \A t \in 1..Len(tasks) : tasks[t].pc = "done"
    /\ \A k \in 1..Len(files) : Done(files[k])

\* C13: when the platform reports every read, decode and encode, every
\* supported file of an admitted collection eventually has had its record
\* created, and every record that is converting eventually is converted
\* (not converting, with a converted URL and a positive size) or is out of
\* the list; two files that convert, with no removal by the user, lead to a
\* list of two converted records.
C13_EveryRecordEventuallySettles ==
    /\ \A t \in 1..MaxTasks : \A j \in 1..MaxUserActions :
           (t \in 1..Len(tasks) /\ j <= Len(tasks[t].imageFiles))
               ~> (t \in 1..Len(tasks) /\ CreatedBy(t) >= j)
    /\ \A id \in 1..MaxUserActions : InProgress(id) ~> DoneOrGone(id)
    /\ (\E t \in 1..Len(tasks) : Len(tasks[t].imageFiles) = 2)
           ~> (SomeRemoved \/ SomeFailed \/ (AllDone /\ Len(files) >= 2))

C13_Witness ==
    /\ Len(tasks) = 1
    /\ tasks[1].fileList = <<PngFile, SvgFile>>
    /\ tasks[1].pc = "done"
    /\ Len(files) = 2
    /\ \A k \in 1..2 :
           /\ Done(files[k])
           /\ files[k].targetFormat = s_webp
           /\ EndsWith(files[k].filename, s_dot \o s_webp)
    /\ ~SomeRemoved
    /\ ~SomeFailed

Converting == {k \in 1..Len(files) : files[k].isConverting}

Unfinished == {t \in 1..Len(tasks) : tasks[t].pc # "done"}

\* C14 (as claimed): the files of one collection are converted with
\* overlapping operations: while a conversion of the collection is
\* unresolved, the records of its later files have been created too.
C14_BatchConversionsOverlap ==
    \A t \in 1..Len(tasks) :
        tasks[t].pc # "done" => CreatedBy(t) = Len(tasks[t].imageFiles)

\* C14 (amended): the files of one collection are converted one at a time:
\* the record of the next file is created in the step in which the
\* conversion of the previous file settles, when the previous record is
\* converted or out of the list, so there are never more converting records
\* than unfinished invocations of handleFiles, and a single collection has
\* at most one.
C14_BatchConvertedOneAtATime ==
    /\ [](/\ Cardinality(Converting) <= Cardinality(Unfinished)
          /\ Len(tasks) = 1 => Cardinality(Converting) <= 1)
    /\ [][\A t \in 1..Len(tasks) :
            (tasks[t].i >= 1 /\ tasks'[t].convertedFile # tasks[t].convertedFile) =>
                /\ Settles(t)
                /\ tasks'[t].convertedFile.id >= nextId
                /\ \A k \in 1..Len(files') :
                       files'[k].id = tasks[t].convertedFile.id =>
                           ~files'[k].isConverting]_vars

C14_Witness ==
    /\ Len(tasks) = 1
    /\ tasks[1].imageFiles = <<PngFile, SvgFile>>
    /\ tasks[1].i = 2
    /\ tasks[1].pc = "reading"
    /\ Len(files) = 2
    /\ ~files[1].isConverting
    /\ files[2].isConverting

LiveUrlsBy(who) ==
    {u \in DOMAIN urlStore : urlStore[u].by \in who /\ urlStore[u].revoked = 0}

\* C15: a convertImage call that succeeded has allocated exactly the URL it
\* returned and a call that failed has allocated none, so once every
\* conversion has settled the live URLs created during convertImage calls
\* are exactly the returned result URLs that were not revoked since.
C15_ConvertImageAllocatesOnlyItsResult ==
    (\A t \in 1..Len(tasks) : tasks[t].pc = "done") =>
        LiveUrlsBy({"convertImage", "loadImage"}) = LiveUrlsBy({"convertImage"})

\* C16: every record of the list is converting exactly when its converted
\* URL is empty, and a converting record has converted size 0.
C16_ConvertingIffNoConvertedUrl ==
    \A k \in 1..Len(files) :
        /\ files[k].isConverting <=> files[k].convertedUrl = EmptyUrl
        /\ files[k].isConverting => files[k].convertedSize = 0

C16_Witness ==
    /\ Len(tasks) = 2
    /\ Len(files) = 2
    /\ files[1].isConverting
    /\ files[1].convertedUrl = EmptyUrl
    /\ ~files[2].isConverting
    /\ files[2].convertedUrl # EmptyUrl
    /\ files[2].convertedSize > 0

\* The step is a removeFile or a clearAll: records leave the list and no
\* invocation of handleFiles moves.
Removes == tasks' = tasks /\ Len(files') < Len(files)

IdsOf(fs) == {fs[k].id : k \in 1..Len(fs)}

\* The URLs the record holds.
HeldBy(file) == {file.originalUrl, file.convertedUrl} \ {EmptyUrl}

\* C17: no object URL is revoked more than once; a removeFile or clearAll
\* step revokes every URL held by each record it removes, exactly once and
\* for the first time, and no other URL; the removed records are out of the
\* list after the step and the other records are as they were.
C17_HandlesReleasedOnceOnRemoval ==
    /\ [](\A u \in DOMAIN urlStore : urlStore[u].revoked <= 1)
    /\ [][Removes =>
            LET removed == {k \in 1..Len(files) : files[k].id \notin IdsOf(files')}
                released == UNION {HeldBy(files[k]) : k \in removed}
                kept(f) == f.id \in IdsOf(files')
            IN  /\ removed # {}
                /\ files' = SelectSeq(files, kept)
                /\ DOMAIN urlStore' = DOMAIN urlStore
                /\ \A u \in DOMAIN urlStore :
                       IF u \in released
                       THEN urlStore[u].revoked = 0 /\ urlStore'[u].revoked = 1
                       ELSE urlStore'[u] = urlStore[u]
                /\ Revocations(urlStore') - Revocations(urlStore) =
                       Cardinality(released)]_vars

C17_Witness ==
    /\ files = <<>>
    /\ Len(urlStore) >= 3
    /\ Revocations(urlStore) = 3
    /\ urlStore[1].by = "createConvertedFileRecord"
    /\ urlStore[1].at = 1
    /\ \E u \in DOMAIN urlStore :
           urlStore[u].by = "convertImage" /\ urlStore[u].at = 2

\* C18 (as claimed): every convertImage call that resolved, SVG input
\* included, was suspended exactly twice: until the decode completed and
\* until the encode completed.
C18_TwoSuspensionPoints ==
    \A t \in 1..Len(tasks) :
        /\ tasks[t].pc \in {"decoding", "encoding", "done"}
        /\ tasks[t].settled.state = "resolved" => tasks[t].settled.waits = 2

\* C18 (amended): a convertImage call that resolved was suspended exactly
\* twice (decode, encode) for input that is not SVG and exactly three times
\* (text read, decode, encode) for SVG input; only an SVG call waits for
\* the read, and a call waits at no other point.
C18_SvgHasThirdSuspensionPoint ==
    \A t \in 1..Len(tasks) :
        LET isSvg(file) == file.type = SvgType
        IN  /\ tasks[t].pc \in {"reading", "decoding", "encoding", "done"}
            /\ tasks[t].pc # "done" =>
                   LET file == tasks[t].imageFiles[tasks[t].i]
                   IN  tasks[t].waits =
                           CASE tasks[t].pc = "reading" -> 0
                             [] tasks[t].pc = "decoding" -> IF isSvg(file) THEN 1 ELSE 0
                             [] tasks[t].pc = "encoding" -> IF isSvg(file) THEN 2 ELSE 1
            /\ tasks[t].pc = "reading" => isSvg(tasks[t].imageFiles[tasks[t].i])
            /\ tasks[t].settled.state = "resolved" =>
                   tasks[t].settled.waits =
                       IF isSvg(tasks[t].settled.record.originalFile) THEN 3 ELSE 2

C18_Witness ==
    /\ Len(tasks) = 2
    /\ tasks[1].settled.state = "resolved"
    /\ tasks[1].settled.record.originalFile = SvgFile
    /\ tasks[1].settled.waits = 3
    /\ tasks[2].settled.state = "resolved"
    /\ tasks[2].settled.record.originalFile = PngFile
    /\ tasks[2].settled.waits = 2

\* The step revokes object URLs: it is a removeFile or a clearAll.
Revokes == Revocations(urlStore') > Revocations(urlStore)

\* The conversion that invocation t awaits is stale: its record is no longer
\* in the list.
Stale(t) == tasks[t].pc # "done" /\ tasks[t].convertedFile.id \notin IdsOf(files)

Referenced(fs, u) == \E k \in 1..Len(fs) : fs[k].convertedUrl = u

\* C19: removing a record does not touch the conversion it was created
\* for; when that conversion settles, every record of the list is as it
\* was and in place, and the removed record is not in the list again; when
\* it resolved, its result URL is live and in no record, and a result URL
\* that is in no record is never put into one and never revoked.
C19_StaleCompletionLeavesListAlone ==
    [][/\ Revokes => tasks' = tasks
       /\ \A t \in 1..Len(tasks) :
              (Stale(t) /\ Settles(t)) =>
                  /\ RecordsOlderThan(files', nextId) = files
                  /\ tasks[t].convertedFile.id \notin IdsOf(files')
                  /\ tasks'[t].settled.state \in {"resolved", "rejected"}
                  /\ tasks'[t].settled.state = "resolved" =>
                         LET u == tasks'[t].settled.url
                         IN  /\ u \in DOMAIN urlStore' \ DOMAIN urlStore
                             /\ urlStore'[u].by = "convertImage"
                             /\ urlStore'[u].revoked = 0
                             /\ ~Referenced(files', u)
       /\ \A u \in DOMAIN urlStore :
              (urlStore[u].by = "convertImage" /\ ~Referenced(files, u)) =>
                  /\ urlStore'[u] = urlStore[u]
                  /\ ~Referenced(files', u)]_vars

C19_Witness ==
    \E t \in 1..Len(tasks) :
        /\ tasks[t].settled.state = "resolved"
        /\ tasks[t].settled.record.id \notin IdsOf(files)
        /\ IsLive(urlStore, tasks[t].settled.url)
        /\ ~Referenced(files, tasks[t].settled.url)
        /\ urlStore[tasks[t].settled.record.originalUrl].revoked = 1
        /\ Len(files) = 1

\* C20: whatever the order in which the conversions of separate admissions
\* settle, a success changes only the record with the conversion's id (its
\* converted URL and size are set to the result and it is no longer
\* converting), a failure removes only that record, every other record is
\* as it was, and the list is always in the order of record creation.
C20_OutcomeChangesOnlyItsRecord ==
    /\ [](\A k \in 1..Len(files) : \A l \in 1..Len(files) :
             k < l => files[k].id < files[l].id)
    /\ [][\A t \in 1..Len(tasks) :
            Settles(t) =>
                LET id == tasks[t].convertedFile.id
                    r == tasks'[t].settled
                    before == RecordsOlderThan(files', nextId)
                IN  /\ r.record.id = id
                    /\ r.state = "resolved" =>
                           /\ Len(before) = Len(files)
                           /\ \A k \in 1..Len(files) :
                                  IF files[k].id = id
                                  THEN /\ before[k].convertedUrl = r.url
                                       /\ before[k].convertedSize = r.size
                                       /\ before[k].isConverting = FALSE
                                       /\ r.url # EmptyUrl
                                       /\ [before[k] EXCEPT
                                              !.convertedUrl = EmptyUrl,
                                              !.convertedSize = 0,
                                              !.isConverting = TRUE] = files[k]
                                  ELSE before[k] = files[k]
                    /\ r.state = "rejected" =>
                           before = RecordsOtherThan(files, id)]_vars

C20_Witness ==
    /\ Len(tasks) = 2
    /\ Len(files) = 2
    /\ tasks[1].settled.record.id = files[1].id
    /\ tasks[2].settled.record.id = files[2].id
    /\ Done(files[1])
    /\ Done(files[2])
    /\ files[2].convertedUrl < files[1].convertedUrl

\* The step changes the selected format.
Selects == selectedFormat' # selectedFormat

\* C21: a change of the selected format changes no record and no running
\* conversion; every record keeps the target format and the filename it was
\* created with, the format a conversion was started with is the one in its
\* record, and a record created in a step has the selection of that step.
C21_FormatChangeLeavesRecordsAlone ==
    /\ [](/\ \A k \in 1..Len(files) :
                 /\ files[k].targetFormat \in FORMAT_OPTIONS
                 /\ files[k].filename =
                        TrailingExtRemoved(files[k].originalFile.name)
                            \o s_dot \o files[k].targetFormat
          /\ \A t \in 1..Len(tasks) :
                 /\ tasks[t].pc # "done" =>
                        tasks[t].targetFormat = tasks[t].convertedFile.targetFormat
                 /\ tasks[t].settled.state # "none" =>
                        tasks[t].settled.targetFormat =
                            tasks[t].settled.record.targetFormat)
    /\ [][/\ Selects => (files' = files /\ tasks' = tasks /\ urlStore' = urlStore)
          /\ \A k \in 1..Len(files) : \A l \in 1..Len(files') :
                 files'[l].id = files[k].id =>
                     /\ files'[l].targetFormat = files[k].targetFormat
                     /\ files'[l].filename = files[k].filename
          /\ \A l \in 1..Len(files') :
                 files'[l].id >= nextId =>
                     /\ files'[l].targetFormat = selectedFormat
                     /\ selectedFormat' = selectedFormat]_vars

C21_Witness ==
    /\ Len(files) = 2
    /\ selectedFormat = s_webp
    /\ files[1].targetFormat = s_jpg
    /\ files[1].isConverting
    /\ tasks[1].targetFormat = s_jpg
    /\ tasks[1].pc = "encoding"
    /\ files[2].targetFormat = s_webp
    /\ EndsWith(files[1].filename, s_dot \o s_jpg)
    /\ EndsWith(files[2].filename, s_dot \o s_webp)

(***************************************************************************)
(* Properties of the pixel surface (ServiceSpec).                          *)
(***************************************************************************)
\* C22: the canvas has exactly the width and height of the decoded image;
\* for jpg and jpeg its whole surface is filled with opaque white and then
\* the image is drawn at the origin; for png and webp the image is drawn at
\* the origin on the untouched, transparent surface.
C22_CanvasSizedAndFilledForJpeg ==
    call.op = "setupCanvas" =>
        LET img == call.given[1]
            canvas == call.ret
            draw == canvas.ops[Len(canvas.ops)]
        IN  /\ canvas.width = img.width
            /\ canvas.height = img.height
            /\ Len(canvas.ops) >= 1
            /\ draw.op = "drawImage"
            /\ draw.x = 0 /\ draw.y = 0
            /\ draw.width = img.width /\ draw.height = img.height
            /\ IF call.targetFormat \in {s_jpg, s_jpeg}
               THEN /\ Len(canvas.ops) = 2
                    /\ canvas.ops[1].op = "fillRect"
                    /\ canvas.ops[1].style = "#FFFFFF"
                    /\ canvas.ops[1].x = 0 /\ canvas.ops[1].y = 0
                    /\ canvas.ops[1].width = img.width
                    /\ canvas.ops[1].height = img.height
               ELSE Len(canvas.ops) = 1

C22_Witness ==
    /\ call.op = "setupCanvas"
    /\ call.targetFormat = s_jpeg
    /\ call.given[1] = [width |-> 2, height |-> 1]
    /\ call.ret.width = 2
    /\ call.ret.height = 1
    /\ Len(call.ret.ops) = 2

(***************************************************************************)
(* Properties of Clear All during a running collection (BatchSpec).        *)
(***************************************************************************)
\* C23: a clearAll step empties the list and revokes, once each, exactly
\* the URLs held by the records that were in it, and it leaves every
\* invocation of handleFiles where it was; when the awaited conversion of
\* an invocation that has files left settles, the same step appends the
\* record of its next file, converting, so the list is not empty after it,
\* cleared or not.
C23_ClearAllDoesNotStopBatch ==
    [][/\ Revokes =>
            LET released == UNION {HeldBy(files[k]) : k \in 1..Len(files)}
            IN  /\ Len(files) > 1
                /\ files' = <<>>
                /\ tasks' = tasks
                /\ DOMAIN urlStore' = DOMAIN urlStore
                /\ \A u \in DOMAIN urlStore :
                       IF u \in released
                       THEN urlStore[u].revoked = 0 /\ urlStore'[u].revoked = 1
                       ELSE urlStore'[u] = urlStore[u]
       /\ \A t \in 1..Len(tasks) :
              (Settles(t) /\ tasks[t].i < Len(tasks[t].imageFiles)) =>
                  LET new == files'[Len(files')]
                  IN  /\ Len(files') >= 1
                      /\ new.id = nextId
                      /\ new.originalFile = tasks[t].imageFiles[tasks[t].i + 1]
                      /\ new.isConverting
                      /\ new = tasks'[t].convertedFile
                      /\ tasks'[t].pc # "done"
                      /\ Len(tasks') = Len(tasks)
                      /\ userActions' = userActions]_vars

C23_Witness ==
    /\ Len(tasks) = 1
    /\ Len(tasks[1].imageFiles) = 3
    /\ tasks[1].i = 3
    /\ tasks[1].settled.state = "resolved"
    /\ tasks[1].settled.record.id = 2
    /\ Revocations(urlStore) = 3
    /\ Len(files) = 1
    /\ files[1].id = 3
    /\ files[1].isConverting
    /\ IsLive(urlStore, files[1].originalUrl)

=============================================================================
